---- MODULE Spec2Model ----
(***************************************************************************)
(* Model of runners/local.py: the local pipeline runner.  One run parses   *)
(* its arguments, resolves inventory/workflow/stage metadata, merges the   *)
(* layered configuration directories, dereferences symlinks into           *)
(* ./effective_cfg, runs the stages in order and removes ./effective_cfg.  *)
(***************************************************************************)
EXTENDS Integers, Sequences, FiniteSets, TLC

(* ---------------------------------------------------------------------- *)
(* Bounds                                                                 *)
(* ---------------------------------------------------------------------- *)
\* longest file content (in characters) drawn for merge_config_dirs inputs
MaxLen == 1
\* longest workflow 'stages' list drawn
MaxStages == 2

(* ---------------------------------------------------------------------- *)
(* Files, directories, symbolic links                                     *)
(* ---------------------------------------------------------------------- *)
\* relative paths below a configuration directory
Paths == {"p", "q"}
\* what a dangling link points at
Gone == "gone"
\* characters of a file: a letter, carriage return, line feed
Chars == {"x", "CR", "LF"}

RECURSIVE SeqsUpTo(_, _)
SeqsUpTo(S, n) ==
    IF n = 0 THEN {<<>>}
    ELSE LET shorter == SeqsUpTo(S, n - 1)
         IN  shorter \cup {Append(s, c) : s \in shorter, c \in S}

File(data) == [kind |-> "file", data |-> data, target |-> "none"]
Link(target) == [kind |-> "link", data |-> <<>>, target |-> target]

EmptyFiles == [z \in {} |-> File(<<>>)]
NoDir == [exists |-> FALSE, files |-> EmptyFiles]
EmptyDir == [exists |-> TRUE, files |-> EmptyFiles]
Dir(files) == [exists |-> TRUE, files |-> files]

\* the regular file a path leads to through its chain of links, or Gone
\* (missing target, or a cycle of links: ELOOP)
RECURSIVE Follow(_, _, _)
Follow(files, path, fuel) ==
    IF path \notin DOMAIN files THEN Gone
    ELSE IF files[path].kind = "file" THEN path
    ELSE IF fuel = 0 THEN Gone
    ELSE Follow(files, files[path].target, fuel - 1)

Readable(files, path) == Follow(files, path, Cardinality(DOMAIN files)) # Gone
ReadBytes(files, path) == files[Follow(files, path, Cardinality(DOMAIN files))].data

\* open(src_file, 'r').read(): text mode with universal newlines, "\r\n" and
\* a lone "\r" both arrive as "\n"
RECURSIVE TextRead(_)
TextRead(s) ==
    IF s = <<>> THEN <<>>
    ELSE IF Head(s) = "CR"
         THEN <<"LF">> \o TextRead(IF Len(s) >= 2 /\ s[2] = "LF"
                                   THEN SubSeq(s, 3, Len(s)) ELSE Tail(s))
         ELSE <<Head(s)>> \o TextRead(Tail(s))

\* open(dest_file, 'a').write('\n' + content) on a POSIX host (os.linesep is "\n")
AppendText(old, new) == old \o <<"LF">> \o TextRead(new)

\* the body of "for file in files" for the files `done` of one source tree
MergeFiles(dest, src, done) ==
    Dir([f \in (DOMAIN dest.files) \cup done |->
            IF f \notin done THEN dest.files[f]
            ELSE IF dest.exists /\ f \in DOMAIN dest.files
                 THEN File(AppendText(dest.files[f].data, ReadBytes(src.files, f)))
                 ELSE File(ReadBytes(src.files, f))])

\* one iteration of "for source_dir in source_dirs": the set of results the
\* directory listing order allows.  os.walk of a missing directory yields
\* nothing; an unreadable entry (dangling link) raises after any subset of
\* the other entries has been processed.
MergeSource(dest, src) ==
    IF ~src.exists THEN {[dir |-> dest, raised |-> FALSE]}
    ELSE LET made == IF dest.exists THEN dest ELSE EmptyDir
             good == {f \in DOMAIN src.files : Readable(src.files, f)}
         IN  IF good = DOMAIN src.files
             THEN {[dir |-> MergeFiles(made, src, good), raised |-> FALSE]}
             ELSE {[dir |-> MergeFiles(made, src, done), raised |-> TRUE] :
                      done \in SUBSET good}

RECURSIVE MergeAll(_, _)
MergeAll(dest, source_dirs) ==
    IF source_dirs = <<>> THEN {[dir |-> dest, raised |-> FALSE]}
    ELSE UNION {IF o.raised THEN {o} ELSE MergeAll(o.dir, Tail(source_dirs)) :
                   o \in MergeSource(dest, Head(source_dirs))}

\* merge_config_dirs(source_dirs, dest_dir): outcomes [dir, raised]
merge_config_dirs(source_dirs, dest_dir) ==
    MergeAll(IF dest_dir.exists THEN NoDir ELSE dest_dir, source_dirs)

\* cp -a src/. dest: the same copy without -L keeps every link as a link
CpDereferenceMutantKeepLinks(src) ==
    IF ~src.exists THEN [dir |-> EmptyDir, failed |-> TRUE]
    ELSE [dir |-> src, failed |-> FALSE]
\* cp -aL src/. dest into the freshly made dest: every entry is copied with
\* its links followed; cp reports an entry it cannot read (or a missing
\* source directory), carries on with the rest and exits non-zero
CpDereference(src) ==
    IF ~src.exists THEN [dir |-> EmptyDir, failed |-> TRUE]
    ELSE LET good == {f \in DOMAIN src.files : Readable(src.files, f)}
         IN  [dir |-> Dir([f \in good |-> File(ReadBytes(src.files, f))]),
              failed |-> good # DOMAIN src.files]

\* "Step 2: Resolve symlinks" on the directory dest: it is removed when it
\* exists, made again, and cp -aL writes into it
ResolveStepMutantKeepOld(dest, src) ==
    LET made == IF dest.exists THEN dest ELSE EmptyDir
        r == CpDereference(src)
    IN  [dir |-> Dir([f \in (DOMAIN made.files) \cup (DOMAIN r.dir.files) |->
                        IF f \in DOMAIN r.dir.files THEN r.dir.files[f]
                        ELSE made.files[f]]),
         failed |-> r.failed]
ResolveStep(dest, src) ==
    LET removed == IF dest.exists THEN NoDir ELSE dest
        made == IF removed.exists THEN removed ELSE EmptyDir
        r == CpDereference(src)
    IN  [dir |-> Dir([f \in (DOMAIN made.files) \cup (DOMAIN r.dir.files) |->
                        IF f \in DOMAIN r.dir.files THEN r.dir.files[f]
                        ELSE made.files[f]]),
         failed |-> r.failed]

(* ---------------------------------------------------------------------- *)
(* Command line                                                           *)
(* ---------------------------------------------------------------------- *)
Procs == {1, 2}
StageIds == {"build", "test", "deploy"}
EnvTypes == {"dev", "prod"}

\* a --run-id token, by what uuid.UUID() looks at: the number of characters
\* left after stripping "urn:uuid:", braces and hyphens, whether they are
\* all hexadecimal, the version nibble and the variant bits
UuidTokens == [hexlen : {31, 32}, hexdigits : BOOLEAN,
               version : {4, 7}, variant : {"RFC_4122", "RESERVED_NCS"}]
NoToken == [hexlen |-> 0, hexdigits |-> FALSE, version |-> 0, variant |-> "none"]

\* uuid.UUID(v) raises ValueError unless 32 hexadecimal digits remain
UuidParses(v) == v.hexlen = 32 /\ v.hexdigits
\* UUID.version: the nibble for an RFC 4122 variant, otherwise None (-1)
UuidVersion(v) == IF v.variant = "RFC_4122" THEN v.version ELSE -1

validate_uuid7MutantAnyVersion(v) ==
    IF ~UuidParses(v) THEN "Invalid UUID format" ELSE "ok"
validate_uuid7(v) ==
    IF ~UuidParses(v) THEN "Invalid UUID format"
    ELSE IF UuidVersion(v) # 7 THEN "UUID must be version 7"
    ELSE "ok"

Str2BoolAccepts(v) == v \in {"true", "false"}
str2bool(v) == v = "true"

Argv == [run_id : UuidTokens, ephemeral : {"true", "false", "yes"},
         env_type : EnvTypes, skip_cfg_merge : BOOLEAN,
         workflow : {"", "release"}]
NoArgv == [run_id |-> NoToken, ephemeral |-> "", env_type |-> "",
           skip_cfg_merge |-> FALSE, workflow |-> ""]

(* ---------------------------------------------------------------------- *)
(* Repository documents                                                   *)
(* ---------------------------------------------------------------------- *)
\* an inventory document: whether it has 'stages', whether that is a list
InventoryLists == {<<>>, <<"build", "test", "deploy">>,
                   <<"deploy", "test", "build">>, <<"test", "deploy">>}
InventoryDocs ==
    {[present |-> FALSE, list |-> FALSE, ids |-> <<>>],
     [present |-> TRUE, list |-> FALSE, ids |-> <<>>]}
    \cup {[present |-> TRUE, list |-> TRUE, ids |-> l] : l \in InventoryLists}
WorkflowDocs ==
    {[present |-> FALSE, ids |-> <<>>]}
    \cup {[present |-> TRUE, ids |-> l] : l \in SeqsUpTo(StageIds, MaxStages)}
NoDoc == [present |-> FALSE, list |-> FALSE, ids |-> <<>>]
NoWorkflowDoc == [present |-> FALSE, ids |-> <<>>]

\* pipeline/stages/<id>/stage.yaml for every stage id
StageYaml(there, keyed, keys) == [exists |-> there, keyed |-> keyed, cfg_keys |-> keys]
StageRepos ==
    {[s \in StageIds |->
        CASE s = "build" -> StageYaml(TRUE, TRUE, <<"registry">>)
          [] s = "test" -> StageYaml(TRUE, FALSE, <<>>)
          [] OTHER -> StageYaml(TRUE, TRUE, <<"db", "dns">>)],
     [s \in StageIds |->
        CASE s = "build" -> StageYaml(TRUE, TRUE, <<"registry">>)
          [] s = "test" -> StageYaml(TRUE, TRUE, <<"db">>)
          [] OTHER -> StageYaml(FALSE, FALSE, <<>>)]}

\* inventory.get("stages", [])
InventoryStageIds(inventory) == IF inventory.present THEN inventory.ids ELSE <<>>
Elems(seq) == {seq[i] : i \in 1..Len(seq)}

\* the "for sid in workflow.get('stages', [])" loop: appends the ids in
\* workflow order and raises at the first id the inventory does not list
RECURSIVE ActiveIdsLoopMutantPrepend(_, _, _)
ActiveIdsLoopMutantPrepend(todo, inventory_stage_ids, active_ids) ==
    IF todo = <<>> THEN [raised |-> FALSE, active_ids |-> active_ids]
    ELSE IF Head(todo) \notin Elems(inventory_stage_ids)
         THEN [raised |-> TRUE, active_ids |-> active_ids]
         ELSE ActiveIdsLoopMutantPrepend(Tail(todo), inventory_stage_ids,
                                         <<Head(todo)>> \o active_ids)
RECURSIVE ActiveIdsLoop(_, _, _)
ActiveIdsLoop(todo, inventory_stage_ids, active_ids) ==
    IF todo = <<>> THEN [raised |-> FALSE, active_ids |-> active_ids]
    ELSE IF Head(todo) \notin Elems(inventory_stage_ids)
         THEN [raised |-> TRUE, active_ids |-> active_ids]
         ELSE ActiveIdsLoop(Tail(todo), inventory_stage_ids,
                            Append(active_ids, Head(todo)))

\* _build_active_stages: one descriptor per active id, in order; raises at
\* the first id without pipeline/stages/<id>/stage.yaml
RECURSIVE _build_active_stages(_, _, _, _)
_build_active_stages(inventory, todo, repo, active) ==
    IF todo = <<>> THEN [error |-> "ok", active_stages |-> active]
    ELSE IF Head(todo) \notin Elems(InventoryStageIds(inventory))
         THEN [error |-> "stage not listed in inventory", active_stages |-> <<>>]
    ELSE IF ~repo[Head(todo)].exists
         THEN [error |-> "stage metadata not found", active_stages |-> <<>>]
    ELSE _build_active_stages(inventory, Tail(todo), repo,
            Append(active, [id |-> Head(todo),
                            cfg_keys |-> IF repo[Head(todo)].keyed
                                         THEN repo[Head(todo)].cfg_keys
                                         ELSE <<>>]))

\* get_stages_from_workflow: the error it raises ("ok" for none) and the
\* descriptors it returns
get_stages_from_workflow(inventory, workflow, repo) ==
    IF inventory.present /\ ~inventory.list
    THEN [error |-> "stages must be a list", active_stages |-> <<>>]
    ELSE IF ~workflow.present
    THEN [error |-> "workflow must have stages", active_stages |-> <<>>]
    ELSE LET ids == ActiveIdsLoop(workflow.ids, InventoryStageIds(inventory), <<>>)
         IN  IF ids.raised
             THEN [error |-> "stage not found in inventory", active_stages |-> <<>>]
             ELSE _build_active_stages(inventory, ids.active_ids, repo, <<>>)

\* json.dumps of a list of strings
RECURSIVE JsonItems(_)
JsonItems(l) ==
    IF l = <<>> THEN <<>>
    ELSE IF Len(l) = 1 THEN <<"\"", l[1], "\"">>
    ELSE <<"\"", l[1], "\"", ", ">> \o JsonItems(Tail(l))
JsonDumps(l) == <<"[">> \o JsonItems(l) \o <<"]">>

\* the configuration trees found under --origin-cfg
CfgTrees ==
    {NoDir, EmptyDir,
     Dir([f \in {"p"} |-> File(<<"x">>)]),
     Dir([f \in {"p", "q"} |-> IF f = "p" THEN File(<<"x">>) ELSE Link("p")]),
     Dir([f \in {"p", "q"} |-> IF f = "p" THEN File(<<"x">>) ELSE Link(Gone)])}

(* ---------------------------------------------------------------------- *)
(* State                                                                  *)
(* ---------------------------------------------------------------------- *)
VARIABLES
    pc,                 \* where each runner process is in main()
    argv,               \* its command line
    workflow_file,      \* "None", "env", "base" or "missing": the workflow file chosen
    workflow_files,     \* which of the candidates "env", "base" are files on disk
    stage_repo,         \* the pipeline/stages/*/stage.yaml files it read from
    inventory_doc,      \* the inventory document it loaded
    workflow_doc,       \* the workflow document it loaded
    active_stages,      \* the descriptors returned by get_stages_from_workflow
    tmp_cfg_dir,        \* the directory tempfile.mkdtemp() gave this process
    source_for_resolve, \* "unset", "origin_cfg" or "tmp_cfg_dir"
    resolved_src,       \* the tree cp read from source_for_resolve
    effective_cfg,      \* ./effective_cfg, shared by every run in the directory
    cur,                \* position of the loop over active_stages
    stage_state,        \* Pending / Running / Completed / Failed per position
    invoked,            \* the stage ids subprocess.run was called for, in order
    env,                \* the environment handed to the latest stage
    failed_stage,       \* position of the stage whose invocation raised (0: none)
    failed_status,      \* its exit status (-1: it could not be launched)
    outcome,            \* how the process ended
    exit_code,          \* its exit code (-1 while it runs)
    exported,           \* whether "export run_id=..." was printed
    effects,            \* the side effects the process has had so far
    mc_pc, mc_sources, mc_dest, mc_result,  \* a call of merge_config_dirs on its own
    rs_pc, rs_src, rs_dest, rs_result       \* the symlink resolution step on its own

resolveVars == <<workflow_file, workflow_files, stage_repo, inventory_doc, workflow_doc, active_stages>>
cfgVars == <<tmp_cfg_dir, source_for_resolve, resolved_src, effective_cfg>>
execVars == <<cur, stage_state, invoked, env, failed_stage, failed_status>>
endVars == <<outcome, exit_code, exported>>
mcVars == <<mc_pc, mc_sources, mc_dest, mc_result, rs_pc, rs_src, rs_dest, rs_result>>
vars == <<pc, argv, resolveVars, cfgVars, execVars, endVars, effects, mcVars>>

NoEnv == [run_id |-> NoToken, cfg_keys |-> <<>>, origin_cfg_base_dir_path |-> "",
          env_type |-> ""]
NoResult == [dir |-> NoDir, raised |-> FALSE]
NoCopy == [dir |-> NoDir, failed |-> FALSE]
NoRepo == [s \in StageIds |-> StageYaml(FALSE, FALSE, <<>>)]
\* exit statuses a stage entry point returns
StageStatuses == {0, 1, 3}

Init ==
    /\ pc = [p \in Procs |-> "idle"]
    /\ argv = [p \in Procs |-> NoArgv]
    /\ workflow_file = [p \in Procs |-> "None"]
    /\ inventory_doc = [p \in Procs |-> NoDoc]
    /\ workflow_doc = [p \in Procs |-> NoWorkflowDoc]
    /\ active_stages = [p \in Procs |-> <<>>]
    /\ tmp_cfg_dir = [p \in Procs |-> NoDir]
    /\ source_for_resolve = [p \in Procs |-> "unset"]
    /\ resolved_src = [p \in Procs |-> NoDir]
    /\ effective_cfg = NoDir
    /\ cur = [p \in Procs |-> 0]
    /\ stage_state = [p \in Procs |-> <<>>]
    /\ invoked = [p \in Procs |-> <<>>]
    /\ env = [p \in Procs |-> NoEnv]
    /\ failed_stage = [p \in Procs |-> 0]
    /\ failed_status = [p \in Procs |-> 0]
    /\ outcome = [p \in Procs |-> "none"]
    /\ exit_code = [p \in Procs |-> -1]
    /\ exported = [p \in Procs |-> FALSE]
    /\ effects = [p \in Procs |-> {}]
    /\ mc_pc = "off"
    /\ mc_sources = <<>>
    /\ mc_dest = NoDir
    /\ mc_result = NoResult
    /\ workflow_files = [p \in Procs |-> {}]
    /\ stage_repo = [p \in Procs |-> NoRepo]
    /\ rs_pc = "off"
    /\ rs_src = NoDir
    /\ rs_dest = NoDir
    /\ rs_result = NoCopy

\* the process ends: sys.exit(code), an argparse error (2) or an uncaught
\* exception (1)
Halt(p, code, why) ==
    /\ pc' = [pc EXCEPT ![p] = "done"]
    /\ exit_code' = [exit_code EXCEPT ![p] = code]
    /\ outcome' = [outcome EXCEPT ![p] = why]
    /\ UNCHANGED exported

Goto(p, label) ==
    /\ pc' = [pc EXCEPT ![p] = label]
    /\ UNCHANGED endVars

(* ---------------------------------------------------------------------- *)
(* main()                                                                 *)
(* ---------------------------------------------------------------------- *)
\* a runner is started in the working directory while no other one runs
Start(p) ==
    /\ \A q \in Procs : pc[q] = "idle"
    /\ \E a \in Argv : argv' = [argv EXCEPT ![p] = a]
    /\ pc' = [pc EXCEPT ![p] = "parse"]
    /\ UNCHANGED <<resolveVars, cfgVars, execVars, endVars, effects, mcVars>>

\* the caller has taken the result of a finished runner; its slot is free
\* again.  The directory mkdtemp() made stays on disk under its own name,
\* which no later run can be given, so it is dropped from the state.
Reap(p) ==
    /\ pc[p] = "done"
    /\ pc' = [pc EXCEPT ![p] = "idle"]
    /\ argv' = [argv EXCEPT ![p] = NoArgv]
    /\ workflow_file' = [workflow_file EXCEPT ![p] = "None"]
    /\ workflow_files' = [workflow_files EXCEPT ![p] = {}]
    /\ stage_repo' = [stage_repo EXCEPT ![p] = NoRepo]
    /\ inventory_doc' = [inventory_doc EXCEPT ![p] = NoDoc]
    /\ workflow_doc' = [workflow_doc EXCEPT ![p] = NoWorkflowDoc]
    /\ active_stages' = [active_stages EXCEPT ![p] = <<>>]
    /\ tmp_cfg_dir' = [tmp_cfg_dir EXCEPT ![p] = NoDir]
    /\ source_for_resolve' = [source_for_resolve EXCEPT ![p] = "unset"]
    /\ resolved_src' = [resolved_src EXCEPT ![p] = NoDir]
    /\ cur' = [cur EXCEPT ![p] = 0]
    /\ stage_state' = [stage_state EXCEPT ![p] = <<>>]
    /\ invoked' = [invoked EXCEPT ![p] = <<>>]
    /\ env' = [env EXCEPT ![p] = NoEnv]
    /\ failed_stage' = [failed_stage EXCEPT ![p] = 0]
    /\ failed_status' = [failed_status EXCEPT ![p] = 0]
    /\ outcome' = [outcome EXCEPT ![p] = "none"]
    /\ exit_code' = [exit_code EXCEPT ![p] = -1]
    /\ exported' = [exported EXCEPT ![p] = FALSE]
    /\ effects' = [effects EXCEPT ![p] = {}]
    /\ UNCHANGED <<effective_cfg, mcVars>>

\* parser.parse_args(): the type= converters run here
ParseArgs(p) ==
    /\ pc[p] = "parse"
    /\ IF ~Str2BoolAccepts(argv[p].ephemeral) \/ validate_uuid7(argv[p].run_id) # "ok"
       THEN Halt(p, 2, "InvalidInput")
       ELSE Goto(p, "check")
    /\ UNCHANGED <<argv, resolveVars, cfgVars, execVars, effects, mcVars>>

\* "Validate ephemeral against env_type"
CheckEphemeralMutantInverted(p) ==
    /\ pc[p] = "check"
    /\ IF argv[p].env_type = "prod" /\ ~str2bool(argv[p].ephemeral)
       THEN Halt(p, 1, "InvalidInput")
       ELSE Goto(p, "git")
    /\ UNCHANGED <<argv, resolveVars, cfgVars, execVars, effects, mcVars>>
CheckEphemeral(p) ==
    /\ pc[p] = "check"
    /\ IF argv[p].env_type = "prod" /\ str2bool(argv[p].ephemeral)
       THEN Halt(p, 1, "InvalidInput")
       ELSE Goto(p, "git")
    /\ UNCHANGED <<argv, resolveVars, cfgVars, execVars, effects, mcVars>>

\* git rev-parse --show-toplevel
GitRevParse(p) ==
    /\ pc[p] = "git"
    /\ effects' = [effects EXCEPT ![p] = @ \cup {"git"}]
    /\ \E found \in BOOLEAN :
          IF found THEN Goto(p, "inventory") ELSE Halt(p, 1, "EnvironmentError")
    /\ UNCHANGED <<argv, resolveVars, cfgVars, execVars, mcVars>>

\* inventory_file.is_file()
FindInventory(p) ==
    /\ pc[p] = "inventory"
    /\ \E is_file \in BOOLEAN :
          IF is_file THEN Goto(p, "workflow") ELSE Halt(p, 1, "ResolutionError")
    /\ UNCHANGED <<argv, resolveVars, cfgVars, execVars, effects, mcVars>>

WorkflowChoiceMutantBaseFirst(workflow, env_is_file, base_is_file) ==
    IF workflow = "" THEN "None"
    ELSE IF base_is_file THEN "base"
    ELSE IF env_is_file THEN "env"
    ELSE "missing"
\* the two-candidate workflow lookup
WorkflowChoice(workflow, env_is_file, base_is_file) ==
    IF workflow = "" THEN "None"
    ELSE IF env_is_file THEN "env"
    ELSE IF base_is_file THEN "base"
    ELSE "missing"

FindWorkflow(p) ==
    /\ pc[p] = "workflow"
    /\ \E env_is_file \in BOOLEAN, base_is_file \in BOOLEAN :
          LET choice == WorkflowChoice(argv[p].workflow, env_is_file, base_is_file)
          IN  /\ workflow_files' = [workflow_files EXCEPT ![p] =
                    (IF env_is_file THEN {"env"} ELSE {})
                    \cup (IF base_is_file THEN {"base"} ELSE {})]
              /\ IF choice = "missing"
                 THEN /\ Halt(p, 1, "ResolutionError")
                      /\ workflow_file' = [workflow_file EXCEPT ![p] = choice]
                 ELSE /\ Goto(p, "stages")
                      /\ workflow_file' = [workflow_file EXCEPT ![p] = choice]
    /\ UNCHANGED <<argv, stage_repo, inventory_doc, workflow_doc, active_stages, cfgVars,
                   execVars, effects, mcVars>>

GetStagesMutantNoRaise(p) ==
    /\ pc[p] = "stages"
    /\ \E inventory \in InventoryDocs, workflow \in WorkflowDocs, repo \in StageRepos :
          /\ inventory_doc' = [inventory_doc EXCEPT ![p] = inventory]
          /\ stage_repo' = [stage_repo EXCEPT ![p] = repo]
          /\ IF workflow_file[p] = "None"
             THEN /\ effects' = [effects EXCEPT ![p] = @ \cup {"load_inventory"}]
                  /\ Halt(p, 1, "ResolutionError")
                  /\ UNCHANGED <<workflow_doc, active_stages>>
             ELSE LET r == get_stages_from_workflow(inventory, workflow, repo)
                  IN  /\ effects' = [effects EXCEPT ![p] =
                                        @ \cup {"load_inventory", "load_workflow"}]
                      /\ workflow_doc' = [workflow_doc EXCEPT ![p] = workflow]
                      /\ Goto(p, "merge")
                      /\ active_stages' =
                            [active_stages EXCEPT ![p] = r.active_stages]
    /\ UNCHANGED <<argv, workflow_file, workflow_files, cfgVars, execVars, mcVars>>
\* "PARSE STAGES DATA": get_stages_from_workflow(inventory_file, workflow_file,
\* repo_root); load_yaml(None) raises when --workflow was empty
GetStages(p) ==
    /\ pc[p] = "stages"
    /\ \E inventory \in InventoryDocs, workflow \in WorkflowDocs, repo \in StageRepos :
          /\ inventory_doc' = [inventory_doc EXCEPT ![p] = inventory]
          /\ stage_repo' = [stage_repo EXCEPT ![p] = repo]
          /\ IF workflow_file[p] = "None"
             THEN /\ effects' = [effects EXCEPT ![p] = @ \cup {"load_inventory"}]
                  /\ Halt(p, 1, "ResolutionError")
                  /\ UNCHANGED <<workflow_doc, active_stages>>
             ELSE LET r == get_stages_from_workflow(inventory, workflow, repo)
                  IN  /\ effects' = [effects EXCEPT ![p] =
                                        @ \cup {"load_inventory", "load_workflow"}]
                      /\ workflow_doc' = [workflow_doc EXCEPT ![p] = workflow]
                      /\ IF r.error # "ok"
                         THEN /\ Halt(p, 1, "ResolutionError")
                              /\ UNCHANGED active_stages
                         ELSE /\ Goto(p, "merge")
                              /\ active_stages' =
                                    [active_stages EXCEPT ![p] = r.active_stages]
    /\ UNCHANGED <<argv, workflow_file, workflow_files, cfgVars, execVars, mcVars>>

\* the source_dirs list chosen by env_type
SourceDirs(env_type, plt_cfg_dir, base_tsp_cfg_dir, base_all_cfg_dir) ==
    IF env_type \in {"test", "staging", "prod"}
    THEN <<plt_cfg_dir, base_tsp_cfg_dir, base_all_cfg_dir>>
    ELSE <<plt_cfg_dir, base_all_cfg_dir>>

\* "Step 1: Merge (if needed)".  mkdtemp() makes a new, uniquely named, empty
\* directory; nothing in main() removes it.
MergeStep(p) ==
    /\ pc[p] = "merge"
    /\ IF argv[p].skip_cfg_merge
       THEN /\ source_for_resolve' = [source_for_resolve EXCEPT ![p] = "origin_cfg"]
            /\ Goto(p, "resolve")
            /\ UNCHANGED <<tmp_cfg_dir, effects>>
       ELSE \E plt \in CfgTrees, tsp \in CfgTrees, all \in CfgTrees :
            \E o \in merge_config_dirs(SourceDirs(argv[p].env_type, plt, tsp, all),
                                       EmptyDir) :
               /\ effects' = [effects EXCEPT ![p] = @ \cup {"mkdtemp", "merge"}]
               /\ tmp_cfg_dir' = [tmp_cfg_dir EXCEPT ![p] = o.dir]
               /\ IF o.raised
                  THEN /\ Halt(p, 1, "ConfigIOError")
                       /\ UNCHANGED source_for_resolve
                  ELSE /\ Goto(p, "resolve")
                       /\ source_for_resolve' =
                             [source_for_resolve EXCEPT ![p] = "tmp_cfg_dir"]
    /\ UNCHANGED <<argv, resolveVars, resolved_src, effective_cfg, execVars, mcVars>>

ResolveSymlinksMutantNoCheck(p) ==
    /\ pc[p] = "resolve"
    /\ \E origin \in CfgTrees :
          LET src == IF source_for_resolve[p] = "origin_cfg" THEN origin
                     ELSE tmp_cfg_dir[p]
              r == ResolveStep(effective_cfg, src)
          IN  /\ resolved_src' = [resolved_src EXCEPT ![p] = src]
              /\ effective_cfg' = r.dir
              /\ effects' = [effects EXCEPT ![p] =
                    @ \cup {"makedirs", "cp"}
                      \cup (IF effective_cfg.exists THEN {"rmtree"} ELSE {})]
              /\ Goto(p, IF active_stages[p] = <<>> THEN "finally" ELSE "exec")
              /\ cur' = [cur EXCEPT ![p] = 1]
              /\ stage_state' = [stage_state EXCEPT ![p] =
                    [i \in 1..Len(active_stages[p]) |-> "Pending"]]
    /\ UNCHANGED <<argv, resolveVars, tmp_cfg_dir, source_for_resolve, invoked, env,
                   failed_stage, failed_status, mcVars>>
\* "Step 2: Resolve symlinks": rmtree if present, makedirs, cp -aL with check=True
ResolveSymlinks(p) ==
    /\ pc[p] = "resolve"
    /\ \E origin \in CfgTrees :
          LET src == IF source_for_resolve[p] = "origin_cfg" THEN origin
                     ELSE tmp_cfg_dir[p]
              r == ResolveStep(effective_cfg, src)
          IN  /\ resolved_src' = [resolved_src EXCEPT ![p] = src]
              /\ effective_cfg' = r.dir
              /\ effects' = [effects EXCEPT ![p] =
                    @ \cup {"makedirs", "cp"}
                      \cup (IF effective_cfg.exists THEN {"rmtree"} ELSE {})]
              /\ IF r.failed
                 THEN /\ Halt(p, 1, "ConfigIOError")
                      /\ UNCHANGED <<cur, stage_state>>
                 ELSE /\ Goto(p, IF active_stages[p] = <<>> THEN "finally" ELSE "exec")
                      /\ cur' = [cur EXCEPT ![p] = 1]
                      /\ stage_state' = [stage_state EXCEPT ![p] =
                            [i \in 1..Len(active_stages[p]) |-> "Pending"]]
    /\ UNCHANGED <<argv, resolveVars, tmp_cfg_dir, source_for_resolve, invoked, env,
                   failed_stage, failed_status, mcVars>>

StageEnvMutantFirstStageKeys(p, stage) ==
    [run_id |-> argv[p].run_id,
     cfg_keys |-> JsonDumps(active_stages[p][1].cfg_keys),
     origin_cfg_base_dir_path |-> "effective_cfg",
     env_type |-> argv[p].env_type]
\* the environment built for a stage
StageEnv(p, stage) ==
    [run_id |-> argv[p].run_id,
     cfg_keys |-> JsonDumps(stage.cfg_keys),
     origin_cfg_base_dir_path |-> "effective_cfg",
     env_type |-> argv[p].env_type]

\* one iteration of the loop up to subprocess.run: the entry point starts,
\* or cannot be launched and subprocess.run raises at once
StartStage(p) ==
    /\ pc[p] = "exec"
    /\ LET stage == active_stages[p][cur[p]]
       IN  /\ env' = [env EXCEPT ![p] = StageEnv(p, stage)]
           /\ invoked' = [invoked EXCEPT ![p] = Append(@, stage.id)]
           /\ effects' = [effects EXCEPT ![p] = @ \cup {"stage"}]
           /\ \E launched \in BOOLEAN :
                 IF launched
                 THEN /\ stage_state' = [stage_state EXCEPT ![p][cur[p]] = "Running"]
                      /\ Goto(p, "running")
                      /\ UNCHANGED <<failed_stage, failed_status>>
                 ELSE /\ stage_state' = [stage_state EXCEPT ![p][cur[p]] = "Failed"]
                      /\ failed_stage' = [failed_stage EXCEPT ![p] = cur[p]]
                      /\ failed_status' = [failed_status EXCEPT ![p] = -1]
                      /\ Goto(p, "finally")
    /\ UNCHANGED <<argv, resolveVars, cfgVars, cur, mcVars>>

StageExitMutantNoCheck(p) ==
    /\ pc[p] = "running"
    /\ \E status \in StageStatuses :
          /\ stage_state' = [stage_state EXCEPT ![p][cur[p]] =
                                IF status = 0 THEN "Completed" ELSE "Failed"]
          /\ failed_stage' = [failed_stage EXCEPT ![p] =
                                 IF status = 0 THEN @ ELSE cur[p]]
          /\ failed_status' = [failed_status EXCEPT ![p] =
                                  IF status = 0 THEN @ ELSE status]
          /\ cur' = [cur EXCEPT ![p] = @ + 1]
          /\ Goto(p, IF cur[p] = Len(active_stages[p]) THEN "finally" ELSE "exec")
    /\ UNCHANGED <<argv, resolveVars, cfgVars, invoked, env, effects, mcVars>>
\* the entry point exits; check=True raises CalledProcessError on non-zero
StageExit(p) ==
    /\ pc[p] = "running"
    /\ \E status \in StageStatuses :
          IF status = 0
          THEN /\ stage_state' = [stage_state EXCEPT ![p][cur[p]] = "Completed"]
               /\ cur' = [cur EXCEPT ![p] = @ + 1]
               /\ Goto(p, IF cur[p] = Len(active_stages[p]) THEN "finally" ELSE "exec")
               /\ UNCHANGED <<failed_stage, failed_status>>
          ELSE /\ stage_state' = [stage_state EXCEPT ![p][cur[p]] = "Failed"]
               /\ failed_stage' = [failed_stage EXCEPT ![p] = cur[p]]
               /\ failed_status' = [failed_status EXCEPT ![p] = status]
               /\ Goto(p, "finally")
               /\ UNCHANGED cur
    /\ UNCHANGED <<argv, resolveVars, cfgVars, invoked, env, effects, mcVars>>

FinallyMutantExportAlways(p) ==
    /\ pc[p] = "finally"
    /\ effective_cfg' = IF effective_cfg.exists THEN NoDir ELSE effective_cfg
    /\ effects' = [effects EXCEPT ![p] =
                      @ \cup (IF effective_cfg.exists THEN {"rmtree"} ELSE {})]
    /\ pc' = [pc EXCEPT ![p] = "done"]
    /\ exported' = [exported EXCEPT ![p] = TRUE]
    /\ IF failed_stage[p] # 0
       THEN /\ exit_code' = [exit_code EXCEPT ![p] = 1]
            /\ outcome' = [outcome EXCEPT ![p] = "StageExecutionFailure"]
       ELSE /\ exit_code' = [exit_code EXCEPT ![p] = 0]
            /\ outcome' = [outcome EXCEPT ![p] = "Succeeded"]
    /\ UNCHANGED <<argv, resolveVars, tmp_cfg_dir, source_for_resolve, resolved_src,
                   execVars, mcVars>>
FinallyMutantCleanupAfterLoop(p) ==
    /\ pc[p] = "finally"
    /\ effective_cfg' = IF effective_cfg.exists /\ failed_stage[p] = 0
                        THEN NoDir ELSE effective_cfg
    /\ effects' = [effects EXCEPT ![p] =
          @ \cup (IF effective_cfg.exists /\ failed_stage[p] = 0
                  THEN {"rmtree"} ELSE {})]
    /\ pc' = [pc EXCEPT ![p] = "done"]
    /\ IF failed_stage[p] # 0
       THEN /\ exit_code' = [exit_code EXCEPT ![p] = 1]
            /\ outcome' = [outcome EXCEPT ![p] = "StageExecutionFailure"]
            /\ UNCHANGED exported
       ELSE /\ exit_code' = [exit_code EXCEPT ![p] = 0]
            /\ outcome' = [outcome EXCEPT ![p] = "Succeeded"]
            /\ exported' = [exported EXCEPT ![p] = TRUE]
    /\ UNCHANGED <<argv, resolveVars, tmp_cfg_dir, source_for_resolve, resolved_src,
                   execVars, mcVars>>
\* the finally block, then either the pending exception ends the process or
\* the summary and "export run_id=..." are printed
Finally(p) ==
    /\ pc[p] = "finally"
    /\ effective_cfg' = IF effective_cfg.exists THEN NoDir ELSE effective_cfg
    /\ effects' = [effects EXCEPT ![p] =
                      @ \cup (IF effective_cfg.exists THEN {"rmtree"} ELSE {})]
    /\ pc' = [pc EXCEPT ![p] = "done"]
    /\ IF failed_stage[p] # 0
       THEN /\ exit_code' = [exit_code EXCEPT ![p] = 1]
            /\ outcome' = [outcome EXCEPT ![p] = "StageExecutionFailure"]
            /\ UNCHANGED exported
       ELSE /\ exit_code' = [exit_code EXCEPT ![p] = 0]
            /\ outcome' = [outcome EXCEPT ![p] = "Succeeded"]
            /\ exported' = [exported EXCEPT ![p] = TRUE]
    /\ UNCHANGED <<argv, resolveVars, tmp_cfg_dir, source_for_resolve, resolved_src,
                   execVars, mcVars>>

Next ==
    \E p \in Procs :
       \/ Start(p)
       \/ Reap(p)
       \/ ParseArgs(p)
       \/ CheckEphemeral(p)
       \/ GitRevParse(p)
       \/ FindInventory(p)
       \/ FindWorkflow(p)
       \/ GetStages(p)
       \/ MergeStep(p)
       \/ ResolveSymlinks(p)
       \/ StartStage(p)
       \/ StageExit(p)
       \/ Finally(p)

Spec == Init /\ [][Next]_vars

(* ---------------------------------------------------------------------- *)
(* merge_config_dirs on its own                                           *)
(* ---------------------------------------------------------------------- *)
\* source trees: "p" a regular file of any content, "q" a link
MergeTrees ==
    {NoDir} \cup
    {Dir([f \in fs |-> IF f = "p" THEN File(c) ELSE Link(t)]) :
        fs \in SUBSET Paths, c \in SeqsUpTo(Chars, MaxLen), t \in {"p", Gone}}
\* the destination before the call: absent, fresh from mkdtemp, or stale
MergeDests == {NoDir, EmptyDir, Dir([f \in {"q"} |-> File(<<"x">>)])}

MergeInit ==
    /\ Init!1 /\ Init!2 /\ Init!3 /\ Init!4 /\ Init!5 /\ Init!6 /\ Init!7
    /\ Init!8 /\ Init!9 /\ Init!10 /\ Init!11 /\ Init!12 /\ Init!13 /\ Init!14
    /\ Init!15 /\ Init!16 /\ Init!17 /\ Init!18 /\ Init!19 /\ Init!20
    /\ Init!25 /\ Init!26 /\ Init!27 /\ Init!28 /\ Init!29 /\ Init!30
    /\ mc_pc = "call"
    /\ mc_sources \in [1..2 -> MergeTrees] \cup [1..3 -> MergeTrees]
    /\ mc_dest \in MergeDests
    /\ mc_result = NoResult

MergeCall ==
    /\ mc_pc = "call"
    /\ \E o \in merge_config_dirs(mc_sources, mc_dest) :
          /\ mc_result' = o
          /\ mc_pc' = IF o.raised THEN "raised" ELSE "returned"
    /\ UNCHANGED <<pc, argv, resolveVars, cfgVars, execVars, endVars, effects,
                   mc_sources, mc_dest, rs_pc, rs_src, rs_dest, rs_result>>

SpecMerge == MergeInit /\ [][MergeCall]_vars

(* ---------------------------------------------------------------------- *)
(* The symlink resolution step on its own                                 *)
(* ---------------------------------------------------------------------- *)
ResolvePaths == {"p", "q", "r"}
\* source trees: every path absent, a regular file, or a link to any path
\* (itself and a missing target included)
ResolveEntries ==
    {File(<<"x">>), File(<<"y">>)} \cup {Link(t) : t \in ResolvePaths \cup {Gone}}
ResolveTrees ==
    {NoDir} \cup UNION {{Dir(files) : files \in [fs -> ResolveEntries]} :
                          fs \in SUBSET ResolvePaths}

ResolveInit ==
    /\ Init!1 /\ Init!2 /\ Init!3 /\ Init!4 /\ Init!5 /\ Init!6 /\ Init!7
    /\ Init!8 /\ Init!9 /\ Init!10 /\ Init!11 /\ Init!12 /\ Init!13 /\ Init!14
    /\ Init!15 /\ Init!16 /\ Init!17 /\ Init!18 /\ Init!19 /\ Init!20
    /\ Init!21 /\ Init!22 /\ Init!23 /\ Init!24 /\ Init!25 /\ Init!26
    /\ rs_pc = "call"
    /\ rs_src \in ResolveTrees
    /\ rs_dest \in MergeDests
    /\ rs_result = NoCopy

ResolveCall ==
    /\ rs_pc = "call"
    /\ rs_result' = ResolveStep(rs_dest, rs_src)
    /\ rs_pc' = IF rs_result'.failed THEN "raised" ELSE "returned"
    /\ UNCHANGED <<pc, argv, resolveVars, cfgVars, execVars, endVars, effects,
                   mc_pc, mc_sources, mc_dest, mc_result, rs_src, rs_dest>>

SpecResolve == ResolveInit /\ [][ResolveCall]_vars

(* ---------------------------------------------------------------------- *)
(* Two runners at once in one working directory                           *)
(* ---------------------------------------------------------------------- *)
\* a runner is started whatever the other one is doing
StartConcurrent(p) ==
    /\ pc[p] = "idle"
    /\ \E a \in Argv : argv' = [argv EXCEPT ![p] = a]
    /\ pc' = [pc EXCEPT ![p] = "parse"]
    /\ UNCHANGED <<resolveVars, cfgVars, execVars, endVars, effects, mcVars>>

\* the inputs of the concurrent runs: one valid command line with
\* --skip-cfg-merge, a one-stage workflow found in the environment-specific
\* place, an origin tree with one file, stages that start and exit 0 or 1
ConcurrentArgv ==
    [run_id |-> [hexlen |-> 32, hexdigits |-> TRUE, version |-> 7,
                 variant |-> "RFC_4122"],
     ephemeral |-> "false", env_type |-> "dev", skip_cfg_merge |-> TRUE,
     workflow |-> "release"]
ConcurrentInputs ==
    \A p \in Procs :
       pc[p] # "idle" =>
          /\ argv[p] = ConcurrentArgv
          /\ outcome[p] \in {"none", "Succeeded", "StageExecutionFailure"}
          /\ workflow_files[p] \subseteq {"env"}
          /\ inventory_doc[p] \in {NoDoc, [present |-> TRUE, list |-> TRUE,
                                           ids |-> <<"build", "test", "deploy">>]}
          /\ workflow_doc[p] \in {NoWorkflowDoc, [present |-> TRUE, ids |-> <<"build">>]}
          /\ stage_repo[p] = NoRepo \/ stage_repo[p]["deploy"].exists
          /\ resolved_src[p] \in {NoDir, Dir([f \in {"p"} |-> File(<<"x">>)])}
          /\ failed_status[p] \in {0, 1}

ConcurrentNext ==
    \E p \in Procs :
       \/ StartConcurrent(p) /\ ConcurrentInputs'
       \/ Reap(p) /\ ConcurrentInputs'
       \/ ParseArgs(p) /\ ConcurrentInputs'
       \/ CheckEphemeral(p) /\ ConcurrentInputs'
       \/ GitRevParse(p) /\ ConcurrentInputs'
       \/ FindInventory(p) /\ ConcurrentInputs'
       \/ FindWorkflow(p) /\ ConcurrentInputs'
       \/ GetStages(p) /\ ConcurrentInputs'
       \/ MergeStep(p) /\ ConcurrentInputs'
       \/ ResolveSymlinks(p) /\ ConcurrentInputs'
       \/ StartStage(p) /\ ConcurrentInputs'
       \/ StageExit(p) /\ ConcurrentInputs'
       \/ Finally(p) /\ ConcurrentInputs'

SpecConcurrent == Init /\ [][ConcurrentNext]_vars

(* ---------------------------------------------------------------------- *)
(* Properties                                                             *)
(* ---------------------------------------------------------------------- *)
IsPrefix(a, b) == Len(a) <= Len(b) /\ \A i \in 1..Len(a) : a[i] = b[i]
\* side effects that create or remove a directory, or run a stage
DirEffects == {"mkdtemp", "merge", "makedirs", "cp", "rmtree"}
EnteredTry(p) == cur[p] >= 1
Ended(p) == pc[p] = "done"

\* C1 (fail-fast): once the invocation of the stage at position k has failed
\* (non-zero exit, or the entry point could not be launched), exactly the
\* first k stages have been invoked and none after k ever is, every later
\* stage is still Pending, stage k is Failed, the run never succeeds and,
\* when it has ended, it ended with a stage failure and a non-zero exit.
C1_FailFast ==
    \A p \in Procs :
       failed_stage[p] # 0 =>
          /\ Len(invoked[p]) = failed_stage[p]
          /\ stage_state[p][failed_stage[p]] = "Failed"
          /\ \A j \in 1..Len(active_stages[p]) :
                /\ j < failed_stage[p] => stage_state[p][j] = "Completed"
                /\ j > failed_stage[p] => stage_state[p][j] = "Pending"
          /\ outcome[p] # "Succeeded" /\ ~exported[p]
          /\ pc[p] \in {"finally", "done"}
          /\ Ended(p) => outcome[p] = "StageExecutionFailure" /\ exit_code[p] # 0
C1_Witness ==
    \E p \in Procs :
       /\ Ended(p) /\ failed_stage[p] = 1 /\ failed_status[p] > 0
       /\ Len(active_stages[p]) >= 2

\* C2: when a run that entered the stage loop has ended, ./effective_cfg does
\* not exist, whether every stage exited zero, a stage exited non-zero or a
\* stage could not be launched.
C2_EffectiveDirRemoved ==
    \A p \in Procs : Ended(p) /\ EnteredTry(p) => ~effective_cfg.exists
C2_Witness ==
    \E p \in Procs :
       /\ Ended(p) /\ EnteredTry(p) /\ failed_status[p] = -1
       /\ "rmtree" \in effects[p]

\* C3: when a run that merged (merge not skipped) has ended Succeeded or
\* Aborted by a stage, the directory made for the merge does not exist.
C3_MergedDirRemoved ==
    \A p \in Procs :
       Ended(p) /\ "merge" \in effects[p]
       /\ outcome[p] \in {"Succeeded", "StageExecutionFailure"}
          => ~tmp_cfg_dir[p].exists

\* C4: when a run has ended because the merge raised or the dereferencing
\* copy failed, neither the merged directory nor ./effective_cfg exists.
C4_NoDirAfterConfigFailure ==
    \A p \in Procs :
       Ended(p) /\ outcome[p] = "ConfigIOError"
          => ~tmp_cfg_dir[p].exists /\ ~effective_cfg.exists

\* C5: the stage ids invoked so far are a prefix of the workflow document's
\* 'stages' list, at most one stage is Running and every stage before it is
\* Completed, and no stage outside the workflow list is invoked, whatever
\* the inventory lists and in whatever order.
C5_WorkflowOrder ==
    \A p \in Procs :
       /\ IsPrefix(invoked[p], workflow_doc[p].ids)
       /\ \A s \in Elems(InventoryStageIds(inventory_doc[p])) :
             s \notin Elems(workflow_doc[p].ids) => s \notin Elems(invoked[p])
       /\ \A i \in 1..Len(stage_state[p]) :
             stage_state[p][i] # "Pending" =>
                /\ i <= Len(invoked[p])
                /\ \A j \in 1..(i - 1) : stage_state[p][j] = "Completed"
C5_Witness ==
    \E p \in Procs :
       /\ Ended(p)
       /\ inventory_doc[p].ids = <<"build", "test", "deploy">>
       /\ invoked[p] = <<"test", "deploy">>

\* C6: a run whose workflow names a stage the inventory does not list, whose
\* workflow file is in neither place, or that met any other resolution error
\* has ended with a non-zero exit, has created or removed no directory and
\* has invoked no stage.
UnknownStage(p) ==
    /\ workflow_doc[p].present
    /\ \E s \in Elems(workflow_doc[p].ids) :
          s \notin Elems(InventoryStageIds(inventory_doc[p]))
C6_ResolutionErrorBeforeConfig ==
    \A p \in Procs :
       UnknownStage(p) \/ workflow_file[p] = "missing"
       \/ outcome[p] = "ResolutionError"
          => /\ Ended(p) /\ exit_code[p] > 0
             /\ effects[p] \cap (DirEffects \cup {"stage"}) = {}
             /\ ~tmp_cfg_dir[p].exists
             /\ invoked[p] = <<>>
C6_Witness ==
    \E p \in Procs : Ended(p) /\ UnknownStage(p) /\ exit_code[p] = 1

\* C7: a stage has been invoked only if the merge (unless skipped) returned
\* and the dereferencing copy succeeded; a run whose merge raised or whose
\* copy failed has ended with no stage invoked.
CopyFailed(p) == "cp" \in effects[p] /\ CpDereference(resolved_src[p]).failed
C7_StagesOnlyAfterConfig ==
    \A p \in Procs :
       /\ invoked[p] # <<>> \/ pc[p] \in {"exec", "running", "finally"} =>
             /\ argv[p].skip_cfg_merge \/ source_for_resolve[p] = "tmp_cfg_dir"
             /\ argv[p].skip_cfg_merge <=> "merge" \notin effects[p]
             /\ "cp" \in effects[p] /\ ~CopyFailed(p)
             /\ effective_cfg = CpDereference(resolved_src[p]).dir
                  \/ pc[p] = "done"
       /\ CopyFailed(p) \/ outcome[p] = "ConfigIOError" =>
             Ended(p) /\ exit_code[p] > 0 /\ invoked[p] = <<>>
C7_Witness ==
    \E p \in Procs :
       /\ Ended(p) /\ CopyFailed(p) /\ active_stages[p] # <<>>
       /\ ~argv[p].skip_cfg_merge

\* C8: a run whose --run-id does not parse as a UUID, or parses with a
\* version other than 7, has ended with a non-zero exit without any side
\* effect: no directory created or removed, no command or stage run.
C8_BadRunIdRejected ==
    \A p \in Procs :
       pc[p] \notin {"idle", "parse"}
       /\ (~UuidParses(argv[p].run_id) \/ UuidVersion(argv[p].run_id) # 7)
          => /\ Ended(p) /\ exit_code[p] > 0
             /\ effects[p] = {} /\ invoked[p] = <<>>
             /\ ~tmp_cfg_dir[p].exists
C8_Witness ==
    \E p \in Procs :
       /\ Ended(p) /\ UuidParses(argv[p].run_id) /\ UuidVersion(argv[p].run_id) = 4
       /\ Str2BoolAccepts(argv[p].ephemeral)

\* C9: a run with --env-type prod and --ephemeral true has ended with a
\* non-zero exit without any side effect: nothing loaded, no command run, no
\* directory created or removed, no stage invoked.
C9_ProdEphemeralRejected ==
    \A p \in Procs :
       pc[p] \notin {"idle", "parse", "check"}
       /\ argv[p].env_type = "prod" /\ argv[p].ephemeral = "true"
          => /\ Ended(p) /\ exit_code[p] > 0
             /\ effects[p] = {} /\ invoked[p] = <<>>
             /\ inventory_doc[p] = NoDoc /\ workflow_doc[p] = NoWorkflowDoc
             /\ ~tmp_cfg_dir[p].exists
C9_Witness ==
    \E p \in Procs :
       /\ Ended(p) /\ argv[p].env_type = "prod" /\ argv[p].ephemeral = "true"
       /\ UuidParses(argv[p].run_id) /\ UuidVersion(argv[p].run_id) = 7
       /\ exit_code[p] = 1

\* the sources that have the path, in list order, and their contents joined
\* by single newlines
RECURSIVE Joined(_, _)
Joined(source_dirs, f) ==
    IF source_dirs = <<>> THEN <<>>
    ELSE LET rest == Tail(source_dirs)
             has(d) == d.exists /\ f \in DOMAIN d.files
             more == \E i \in 1..Len(rest) : has(rest[i])
         IN  IF ~has(Head(source_dirs)) THEN Joined(rest, f)
             ELSE ReadBytes(Head(source_dirs).files, f)
                  \o (IF more THEN <<"LF">> \o Joined(rest, f) ELSE <<>>)
Contributes(source_dirs, f) ==
    \E i \in 1..Len(source_dirs) : source_dirs[i].exists /\ f \in DOMAIN source_dirs[i].files

\* C10: after merge_config_dirs returns, the destination has a file at a path
\* exactly when some source has it, and its content is the contents of that
\* path in the sources that have it, in list order, joined by one newline.
C10_MergeJoinsContents ==
    mc_pc = "returned" =>
       \A f \in Paths :
          IF Contributes(mc_sources, f)
          THEN /\ f \in DOMAIN mc_result.dir.files
               /\ mc_result.dir.files[f].data = Joined(mc_sources, f)
          ELSE f \notin DOMAIN mc_result.dir.files

\* the chains of links that lead from a path to a regular file
LinkChains(files, f) ==
    {c \in SeqsUpTo(ResolvePaths, Cardinality(ResolvePaths)) :
        /\ c # <<>> /\ c[1] = f
        /\ \A i \in 1..Len(c) : c[i] \in DOMAIN files
        /\ \A i \in 1..(Len(c) - 1) :
              files[c[i]].kind = "link" /\ files[c[i]].target = c[i + 1]
        /\ files[c[Len(c)]].kind = "file"}
FinalTarget(files, f) == LET c == CHOOSE c \in LinkChains(files, f) : TRUE
                         IN  c[Len(c)]

\* C11: when the resolution step returns, the destination has exactly the
\* entries of the source tree, each a regular file holding the content of the
\* regular file its chain of links ends at; when some entry of the source
\* leads to no regular file (or the source is missing) the step raises.
C11_NoLinkAfterResolve ==
    /\ rs_pc = "returned" =>
          /\ rs_src.exists
          /\ DOMAIN rs_result.dir.files = DOMAIN rs_src.files
          /\ \A f \in DOMAIN rs_src.files :
                /\ rs_result.dir.files[f].kind = "file"
                /\ LinkChains(rs_src.files, f) # {}
                /\ rs_result.dir.files[f].data =
                      rs_src.files[FinalTarget(rs_src.files, f)].data
    /\ rs_pc \in {"returned", "raised"}
       /\ (\E f \in DOMAIN rs_src.files : LinkChains(rs_src.files, f) = {})
          => rs_pc = "raised"
C11_Witness ==
    /\ rs_pc = "returned"
    /\ DOMAIN rs_src.files = ResolvePaths
    /\ rs_src.files["r"] = Link("q") /\ rs_src.files["q"] = Link("p")
    /\ rs_src.files["p"] = File(<<"y">>)
    /\ rs_result.dir.files["r"] = File(<<"y">>)

\* C12: once the documents are loaded, a run whose inventory has no 'stages'
\* field or a 'stages' that is not a list, or whose workflow has no 'stages'
\* field, has ended with a resolution error and a non-zero exit, whatever
\* the workflow lists.
C12_MalformedDocumentsFail ==
    \A p \in Procs :
       "load_workflow" \in effects[p]
       /\ (~inventory_doc[p].present \/ ~inventory_doc[p].list
           \/ ~workflow_doc[p].present)
          => Ended(p) /\ exit_code[p] > 0 /\ outcome[p] = "ResolutionError"

AllStagesCompleted(p) ==
    /\ EnteredTry(p)
    /\ Len(stage_state[p]) = Len(active_stages[p])
    /\ \A i \in 1..Len(stage_state[p]) : stage_state[p][i] = "Completed"
C14_ExportIffSuccess ==
    \A p \in Procs :
       /\ exported[p] <=> Ended(p) /\ AllStagesCompleted(p)
       /\ Ended(p) /\ exported[p] => exit_code[p] = 0 /\ outcome[p] = "Succeeded"
       /\ Ended(p) /\ ~exported[p] => exit_code[p] > 0 /\ outcome[p] # "Succeeded"
C14_Witness ==
    \E p \in Procs :
       Ended(p) /\ exported[p] /\ Len(invoked[p]) = 2 /\ exit_code[p] = 0

\* C15: a run that ended because a stage exited with status n > 0 has exit
\* code n.
C15_ExitCodeIsStageStatus ==
    \A p \in Procs :
       Ended(p) /\ failed_stage[p] # 0 /\ failed_status[p] > 0
          => exit_code[p] = failed_status[p]

\* the cfg_keys a stage.yaml declares (none when it has no such field)
DeclaredKeys(repo, id) == IF repo[id].keyed THEN repo[id].cfg_keys ELSE <<>>

\* C16: while a stage is Running, the environment it was given has run_id
\* equal to the (version 7) --run-id of the command line, env_type equal to
\* --env-type, cfg_keys equal to the JSON list of the keys declared by the
\* stage.yaml of that very stage, and origin_cfg_base_dir_path naming
\* ./effective_cfg, which exists and holds the dereferenced copy of this
\* run's source tree.
C16_StageEnvironment ==
    \A p \in Procs :
       pc[p] = "running" =>
          LET k == cur[p]
              id == workflow_doc[p].ids[k]
          IN  /\ stage_state[p][k] = "Running"
              /\ invoked[p][Len(invoked[p])] = id
              /\ env[p].run_id = argv[p].run_id
              /\ UuidParses(env[p].run_id) /\ UuidVersion(env[p].run_id) = 7
              /\ env[p].env_type = argv[p].env_type
              /\ env[p].cfg_keys = JsonDumps(DeclaredKeys(stage_repo[p], id))
              /\ env[p].origin_cfg_base_dir_path = "effective_cfg"
              /\ effective_cfg.exists
              /\ DOMAIN effective_cfg.files = DOMAIN resolved_src[p].files
C16_Witness ==
    \E p \in Procs :
       /\ pc[p] = "running" /\ cur[p] = 2
       /\ DeclaredKeys(stage_repo[p], workflow_doc[p].ids[1])
             # DeclaredKeys(stage_repo[p], workflow_doc[p].ids[2])
       /\ env[p].cfg_keys = <<"[", "\"", "db", "\"", ", ", "\"", "dns", "\"", "]">>

\* C17: after merge_config_dirs returns, the destination directory exists
\* and every file in it comes from a source, whatever was there before and
\* whether or not any source exists.
C17_DestRecreated ==
    mc_pc = "returned" =>
       /\ mc_result.dir.exists
       /\ \A f \in DOMAIN mc_result.dir.files : Contributes(mc_sources, f)

\* C18: while the stages of a run are being executed, ./effective_cfg holds
\* exactly the dereferenced entries of the tree this run resolved from, also
\* when an earlier run left an ./effective_cfg behind.
C18_EffectiveDirIsFresh ==
    \A p \in Procs :
       pc[p] \in {"exec", "running", "finally"} =>
          /\ effective_cfg.exists
          /\ DOMAIN effective_cfg.files = DOMAIN resolved_src[p].files
          /\ \A f \in DOMAIN effective_cfg.files :
                effective_cfg.files[f] = File(ReadBytes(resolved_src[p].files, f))
C18_Witness ==
    \E p \in Procs :
       /\ pc[p] = "running" /\ "rmtree" \in effects[p]
       /\ resolved_src[p] = EmptyDir /\ effective_cfg = EmptyDir

\* C19: with two runners in one working directory, whenever one of them
\* leaves its finally block while a stage of the other is Running,
\* ./effective_cfg is gone afterwards, and whenever one of them completes its
\* resolution step while a stage of the other is Running, ./effective_cfg is
\* afterwards the copy made for the former; a state in which a stage is
\* Running without ./effective_cfg is reached.
C19_SharedDirInterference ==
    [][\A p \in Procs, q \in Procs :
          p # q /\ pc[q] = "running" /\ pc'[q] = "running" =>
             /\ pc[p] = "finally" /\ pc'[p] = "done" => ~effective_cfg'.exists
             /\ pc[p] = "resolve" /\ pc'[p] # "resolve" =>
                   effective_cfg' = CpDereference(resolved_src'[p]).dir]_vars
C19_Witness ==
    \E p \in Procs, q \in Procs :
       /\ p # q /\ pc[q] = "running" /\ stage_state[q][cur[q]] = "Running"
       /\ pc[p] = "done" /\ outcome[p] = "Succeeded"
       /\ ~effective_cfg.exists

====
